---- MODULE Spec2Model ----
(***************************************************************************)
(* LazyLinkfield (src/unnamed/part_000): a field that lazily clones the    *)
(* field its target names, applies overrides to the clone, and proxies     *)
(* value, validation and path resolution to that clone.                    *)
(*                                                                         *)
(* JavaScript values are strings here: "undefined", "null", the falsy      *)
(* primitives "0", "" and "false", and truthy primitives.  A field node is *)
(* an entry of `heap`: its properties and nested properties, kept as a     *)
(* property tree, mapping each property path that exists to the cell found *)
(* there ("obj" for a nested object, or a primitive).                      *)
(***************************************************************************)
EXTENDS Integers, Sequences, FiniteSets, TLC

VARIABLES
  target,        \* does resolveRef(this.target) find the template field
  overrides,     \* this.overrides, as the sequence Object.entries yields
  child,         \* this.child: NoChild, or a reference to a field node
  cachedValue,   \* this.cachedValue
  heap,          \* property tree of every field node
  nodeValue,     \* what getValue() of a field node returns
  created,       \* number of clones made so far (identity of the next one)
  lastSet,       \* the value last handed to setValue, NeverSet before the first
  lastCall       \* the last call made on the field, its inputs and outcome

vars ==
  <<target, overrides, child, cachedValue, heap, nodeValue, created, lastSet, lastCall>>

----------------------------------------------------------------------------
(* Bounds *)

MaxOverrides == 2    \* entries of the overrides mapping
MaxCreations == 3    \* clones made in one behaviour
MaxChain == 2
MaxPathLen == 3        \* lazy links nested below the field

----------------------------------------------------------------------------
(* JavaScript values *)

Undefined == "undefined"
Null == "null"

Falsy == {Undefined, Null, "0", "", "false"}

\* ToBoolean(v), as used by `if (this.cachedValue)` and `!this.cachedValue`
Truthy(v) == v \notin Falsy

\* values handed to setValue
Values == {"0", "", "false", "v", "w"}

\* value of the template field (what a fresh clone's getValue() returns)
TemplateValues == {Undefined, "t"}

----------------------------------------------------------------------------
(* Field nodes and their property trees *)

Absent == "absent"
Obj == "obj"

\* the template, a field below it, the clone and the clone's copy of that field
NodeIds == {"tmpl", "tmplSub", "clone", "cloneSub"}

\* no node: not even the root path exists
Blank == [p \in {} |-> Absent]

\* the template field: a = {b: {c: "1"}}, b = "7"
TemplateTree ==
  [p \in {<<>>, <<"a">>, <<"a", "b">>, <<"a", "b", "c">>, <<"b">>} |->
     IF p = <<"a", "b", "c">> THEN "1"
     ELSE IF p = <<"b">> THEN "7"
     ELSE Obj]

\* the field below the template: a = {b: "1"}
TemplateSubTree ==
  [p \in {<<>>, <<"a">>, <<"a", "b">>} |->
     IF p = <<"a", "b">> THEN "1" ELSE Obj]

InitHeap ==
  [n \in NodeIds |->
     IF n = "tmpl" THEN TemplateTree
     ELSE IF n = "tmplSub" THEN TemplateSubTree
     ELSE Blank]

NoChild == [ref |-> "none", id |-> 0]

IsPrefix(p, q) == Len(p) <= Len(q) /\ SubSeq(q, 1, Len(p)) = p

\* object[key...]: the cell at a property path, absent when there is none
Lookup(tree, p) == IF p \in DOMAIN tree THEN tree[p] ELSE Absent

\* the field below node n (the node a scoped element path names)
SubOf(n) == IF n = "tmpl" THEN "tmplSub" ELSE "cloneSub"

----------------------------------------------------------------------------
(* References to JavaScript values while a path is walked *)

RefTo(n, p) == [kind |-> "ref", node |-> n, at |-> p]
UndefRef == [kind |-> "undef", node |-> "none", at |-> <<>>]
PrimRef == [kind |-> "prim", node |-> "none", at |-> <<>>]
Thrown == [kind |-> "throw", node |-> "none", at |-> <<>>]

\* object[key]: TypeError on undefined, undefined on a primitive
Step(h, object, key) ==
  IF object.kind = "throw" \/ object.kind = "undef" THEN Thrown
  ELSE IF object.kind = "prim" THEN UndefRef
  ELSE LET q == Append(object.at, key)
           cell == Lookup(h[object.node], q)
       IN IF cell = Absent THEN UndefRef
          ELSE IF cell = Obj THEN RefTo(object.node, q)
          ELSE PrimRef

\* path.splice(start): the elements from index start on are removed from the
\* array and returned; the array keeps the ones before
splice(path, start) ==
  [removed |-> SubSeq(path, start + 1, Len(path)),
   left |-> SubSeq(path, 1, start)]

RECURSIVE resolveRawPath(_, _, _)

\* the sentinel "#" used as a property key like any other segment
resolveRawPath_sentinelAsKey(h, object, path) ==
  IF Len(path) = 0 THEN object
  ELSE resolveRawPath(h, Step(h, object, path[1]), splice(path, 1).removed)

resolveRawPath(h, object, path) ==
  IF Len(path) = 0 THEN object
  ELSE IF path[1] = "#" THEN resolveRawPath(h, object, splice(path, 1).removed)
  ELSE resolveRawPath(h, Step(h, object, path[1]), splice(path, 1).removed)

----------------------------------------------------------------------------
(* Override keys.  A key is a string; it is modelled as the sequence of its *)
(* tokens: the separators ";" and "/" and the maximal runs between them.    *)

Semi == ";"
Slash == "/"

RECURSIVE IndexOf(_, _, _)
\* position of the first sep in s at or after i, 0 when there is none
IndexOf(s, sep, i) ==
  IF i > Len(s) THEN 0
  ELSE IF s[i] = sep THEN i
  ELSE IndexOf(s, sep, i + 1)

\* String.prototype.includes
Includes(s, sep) == IndexOf(s, sep, 1) # 0

RECURSIVE Split(_, _)
\* String.prototype.split: the pieces of s between occurrences of sep
Split(s, sep) ==
  LET i == IndexOf(s, sep, 1)
  IN IF i = 0 THEN <<s>>
     ELSE <<SubSeq(s, 1, i - 1)>> \o Split(SubSeq(s, i + 1, Len(s)), sep)

\* the string a piece without "/" stands for: one run, or the empty string
Name(piece) == IF piece = <<>> THEN "" ELSE piece[1]

\* field.split('/') as an array of segment strings
SplitPath(s) == LET ps == Split(s, Slash) IN [i \in 1..Len(ps) |-> Name(ps[i])]

Key(k, v) == [field |-> k, value |-> v]

----------------------------------------------------------------------------
(* createChild *)

\* Field.clone(parent): a deep copy of the template and of the field below it
cloneField(s) ==
  [s EXCEPT !.child = [ref |-> "clone", id |-> s.created + 1],
            !.created = s.created + 1,
            !.heap = [s.heap EXCEPT !["clone"] = s.heap["tmpl"],
                                    !["cloneSub"] = s.heap["tmplSub"]],
            !.nodeValue = [s.nodeValue EXCEPT !["clone"] = s.nodeValue["tmpl"]]]

\* Field.resolveRef(elementPath) on the child: the child itself for "#", the
\* field below it for "sub", nothing for any other element path
resolveRef(c, elementPath) ==
  IF elementPath = <<"#">> THEN RefTo(c.ref, <<>>)
  ELSE IF elementPath = <<"sub">> THEN RefTo(SubOf(c.ref), <<>>)
  ELSE UndefRef

\* Field.setValue(v) on a field that holds its own value
fieldSetValue(nv, n, v) == [nv EXCEPT ![n] = v]

\* target[key] = value
SetAt(tree, p, v) ==
  [q \in {r \in DOMAIN tree : ~IsPrefix(p, r)} \cup {p} |->
     IF q = p THEN v ELSE tree[q]]

\* delete target[key]
DeleteAt(tree, p) ==
  [q \in {r \in DOMAIN tree : ~IsPrefix(p, r)} |-> tree[q]]

\* the element path of a scoped key ignored: every entry rooted at the child
overrideRoot_unscoped(c, field) == RefTo(c.ref, <<>>)

\* where one override entry starts walking: the child, or the node its
\* element path names
overrideRoot(c, field) ==
  IF Includes(field, Semi)
    THEN resolveRef(c, Split(field, Semi)[1])
    ELSE RefTo(c.ref, <<>>)

\* the property path of one override entry
overridePath(field) ==
  IF Includes(field, Semi)
    THEN SplitPath(Split(field, Semi)[2])
    ELSE SplitPath(field)

\* null assigned like any other value instead of deleting the property
writeProperty_assignNull(tree, p, value) == SetAt(tree, p, value)

\* if (value === null) delete target[last]; else target[last] = value
writeProperty(tree, p, value) ==
  IF value = Null THEN DeleteAt(tree, p) ELSE SetAt(tree, p, value)

\* the body of the for loop, for one entry: the heap after it, and whether it threw
applyOverride(h, c, entry) ==
  LET fieldPath == overridePath(entry.field)
      lastFieldPathEntry == fieldPath[Len(fieldPath)]
      tgt == resolveRawPath(h, overrideRoot(c, entry.field),
                            SubSeq(fieldPath, 1, Len(fieldPath) - 1))
  IN IF tgt.kind = "throw" \/ tgt.kind = "undef"
       THEN [heap |-> h, threw |-> TRUE]
     ELSE IF tgt.kind = "prim"
       \* class bodies are strict code: assigning to a property of a
       \* primitive throws, deleting one does nothing
       THEN [heap |-> h, threw |-> entry.value # Null]
     ELSE LET p == Append(tgt.at, lastFieldPathEntry)
          IN [heap |-> [h EXCEPT ![tgt.node] = writeProperty(@, p, entry.value)],
              threw |-> FALSE]

RECURSIVE applyOverrides_reversed(_, _, _)
\* the entries applied last to first
applyOverrides_reversed(h, c, entries) ==
  IF entries = <<>> THEN [heap |-> h, threw |-> FALSE, failedAt |-> 0]
  ELSE LET r == applyOverrides_reversed(h, c, Tail(entries))
       IN IF r.threw THEN [r EXCEPT !.failedAt = r.failedAt + 1]
          ELSE LET r1 == applyOverride(r.heap, c, Head(entries))
               IN [heap |-> r1.heap, threw |-> r1.threw,
                   failedAt |-> IF r1.threw THEN 1 ELSE 0]

RECURSIVE applyOverrides_skipFailed(_, _, _)
\* an entry that cannot be applied is skipped and the loop goes on
applyOverrides_skipFailed(h, c, entries) ==
  IF entries = <<>> THEN [heap |-> h, threw |-> FALSE, failedAt |-> 0]
  ELSE applyOverrides_skipFailed(applyOverride(h, c, Head(entries)).heap, c, Tail(entries))

RECURSIVE applyOverrides(_, _, _)
\* the for loop over Object.entries(this.overrides): stops at the first throw;
\* failedAt is the position of the entry that threw, 0 when none did
applyOverrides(h, c, entries) ==
  IF entries = <<>> THEN [heap |-> h, threw |-> FALSE, failedAt |-> 0]
  ELSE LET r == applyOverride(h, c, Head(entries))
       IN IF r.threw THEN [heap |-> r.heap, threw |-> TRUE, failedAt |-> 1]
          ELSE LET rest == applyOverrides(r.heap, c, Tail(entries))
               IN IF rest.threw THEN [rest EXCEPT !.failedAt = rest.failedAt + 1]
                  ELSE rest

\* if (this.cachedValue) { this.child.setValue(this.cachedValue); ... }
useCachedValue(s) ==
  IF Truthy(s.cachedValue)
    THEN [s EXCEPT !.nodeValue = fieldSetValue(@, s.child.ref, s.cachedValue),
                   !.cachedValue = Undefined]
    ELSE s

\* the template itself taken as the child, without cloning it
assignChild_aliased(s) ==
  [s EXCEPT !.child = [ref |-> "tmpl", id |-> s.created + 1],
            !.created = s.created + 1]

\* this.child = this.resolveRef(this.target).clone(this)
assignChild(s) == cloneField(s)

\* an unresolvable target guarded: the poll returns and nothing is created
createChild_guarded(s, tgt, ovs) ==
  IF ~tgt THEN s
  ELSE LET s1 == assignChild(s)
           r == applyOverrides(s1.heap, s1.child, ovs)
           s2 == [s1 EXCEPT !.heap = r.heap]
       IN IF r.threw THEN [s2 EXCEPT !.threw = TRUE, !.failedAt = r.failedAt]
          ELSE useCachedValue(s2)

\* the clone assigned to this.child only once every override has applied
createChild_assignLast(s, tgt, ovs) ==
  IF ~tgt THEN [s EXCEPT !.threw = TRUE]
  ELSE LET s1 == assignChild(s)
           r == applyOverrides(s1.heap, s1.child, ovs)
           s2 == [s1 EXCEPT !.heap = r.heap]
       IN IF r.threw THEN [s EXCEPT !.threw = TRUE, !.failedAt = r.failedAt]
          ELSE useCachedValue(s2)

createChild(s, tgt, ovs) ==
  IF ~tgt THEN [s EXCEPT !.threw = TRUE]
  ELSE LET s1 == assignChild(s)
           r == applyOverrides(s1.heap, s1.child, ovs)
           s2 == [s1 EXCEPT !.heap = r.heap]
       IN IF r.threw THEN [s2 EXCEPT !.threw = TRUE, !.failedAt = r.failedAt]
          ELSE useCachedValue(s2)

\* deleteChild: the clone is dropped
deleteChild(s) ==
  [s EXCEPT !.child = NoChild,
            !.heap = [@ EXCEPT !["clone"] = Blank, !["cloneSub"] = Blank],
            !.nodeValue = [@ EXCEPT !["clone"] = Undefined]]

----------------------------------------------------------------------------
(* The field's state as one record, and the calls made on it *)

This ==
  [child |-> child, cachedValue |-> cachedValue, heap |-> heap,
   nodeValue |-> nodeValue, created |-> created, threw |-> FALSE, failedAt |-> 0]

Becomes(s) ==
  /\ child' = s.child
  /\ cachedValue' = s.cachedValue
  /\ heap' = s.heap
  /\ nodeValue' = s.nodeValue
  /\ created' = s.created

NeverSet == "never set"
Nothing == "nothing"

\* this.parent, as shouldDisplay reads it
Parents ==
  {[exists |-> FALSE, isCollapsible |-> FALSE, collapsed |-> FALSE]}
    \cup [exists : {TRUE}, isCollapsible : BOOLEAN, collapsed : BOOLEAN]

NoParent == [exists |-> FALSE, isCollapsible |-> FALSE, collapsed |-> FALSE]

\* results a child's revalidate can give: with or without a childrenValid flag
ChildResults == [valid : BOOLEAN, hasChildrenValid : BOOLEAN, childrenValid : BOOLEAN]

NoValidation ==
  [valid |-> TRUE,
   child |-> [valid |-> TRUE, hasChildrenValid |-> FALSE, childrenValid |-> FALSE],
   childrenValid |-> TRUE]

\* paths handed to resolvePath
PathInputs == {<<>>, <<"foo">>, <<":child", "foo">>}

Call(op) ==
  [op |-> op, value |-> Undefined, display |-> FALSE, parent |-> NoParent,
   threw |-> FALSE, result |-> Undefined, hadChild |-> child # NoChild,
   repeated |-> FALSE, validation |-> NoValidation, path |-> <<>>,
   base |-> Nothing, childAnswer |-> Nothing, chain |-> <<>>, failedAt |-> 0,
   root |-> UndefRef, found |-> UndefRef, pathLeft |-> <<>>]

----------------------------------------------------------------------------
(* Operations *)

\* a collapsed flag honoured on a parent that is not collapsible
isParentCollapsed_anyParent(parent) == parent.exists /\ parent.collapsed

\* this.parent && this.parent.isCollapsible && this.parent.collapsed
isParentCollapsed(parent) ==
  parent.exists /\ parent.isCollapsible /\ parent.collapsed

\* a child created although the parent is collapsed
mustCreate_whileCollapsed(s, parent) == s.child = NoChild

\* a child created on every visible poll, whether or not one exists
mustCreate_always(s, parent) == ~isParentCollapsed(parent)

\* this.child === undefined && !isParentCollapsed
mustCreate(s, parent) == s.child = NoChild /\ ~isParentCollapsed(parent)

\* the child dropped without its value being kept
captureChildValue_dropped(s) == s

\* this.cachedValue = this.child.getValue()
captureChildValue(s) == [s EXCEPT !.cachedValue = s.nodeValue[s.child.ref]]

\* shouldDisplay, given what super.shouldDisplay() returns and the parent
shouldDisplayState(s, display, parent) ==
  IF display
    THEN IF mustCreate(s, parent)
           THEN createChild(s, target, overrides)
           ELSE s
    ELSE IF s.child # NoChild
      THEN deleteChild(captureChildValue(s))
      ELSE s

ShouldDisplay(display, parent) ==
  LET s == shouldDisplayState(This, display, parent)
  IN /\ s.created <= MaxCreations
     /\ Becomes(s)
     /\ lastCall' = [Call("shouldDisplay") EXCEPT
                       !.display = display, !.parent = parent, !.threw = s.threw,
                       !.failedAt = s.failedAt,
                       !.result = IF s.threw THEN Undefined
                                  ELSE IF display THEN "true" ELSE "false",
                       !.repeated = /\ lastCall.op = "shouldDisplay"
                                    /\ lastCall.display = display
                                    /\ lastCall.parent = parent]
     /\ UNCHANGED <<target, overrides, lastSet>>

\* a setValue that creates the child it has no place to put the value in
setValueState_eager(s, value) ==
  IF s.child = NoChild
    THEN createChild([s EXCEPT !.cachedValue = value], target, overrides)
    ELSE [s EXCEPT !.nodeValue = fieldSetValue(@, s.child.ref, value)]

\* setValue: onSetValue(value) is the base field's hook and changes nothing here
setValueState(s, value) ==
  IF s.child = NoChild
    THEN [s EXCEPT !.cachedValue = value]
    ELSE [s EXCEPT !.nodeValue = fieldSetValue(@, s.child.ref, value)]

SetValue(value) ==
  /\ Becomes(setValueState(This, value))
  /\ lastSet' = value
  /\ lastCall' = [Call("setValue") EXCEPT !.value = value]
  /\ UNCHANGED <<target, overrides>>

getValue(s) ==
  IF s.child # NoChild THEN s.nodeValue[s.child.ref] ELSE s.cachedValue

GetValue ==
  /\ lastCall' = [Call("getValue") EXCEPT !.result = getValue(This)]
  /\ UNCHANGED <<target, overrides, child, cachedValue, heap, nodeValue, created, lastSet>>

\* isEmpty, given what the child's isEmpty() returns
isEmpty(s, childEmpty) ==
  IF s.child = NoChild THEN ~Truthy(s.cachedValue) ELSE childEmpty

IsEmpty(childEmpty) ==
  /\ lastCall' = [Call("isEmpty") EXCEPT
                    !.result = IF isEmpty(This, childEmpty) THEN "true" ELSE "false"]
  /\ UNCHANGED <<target, overrides, child, cachedValue, heap, nodeValue, created, lastSet>>

\* childrenValid taken from the child's valid flag, whatever else it reports
revalidate_validOnly(s, baseValid, childResult) ==
  LET c == IF s.child # NoChild THEN childResult
           ELSE [valid |-> TRUE, hasChildrenValid |-> FALSE, childrenValid |-> FALSE]
  IN [valid |-> baseValid, child |-> c, childrenValid |-> c.valid]

\* revalidate, given super.revalidate()'s valid flag and the child's result
revalidate(s, baseValid, childResult) ==
  LET c == IF s.child # NoChild THEN childResult
           ELSE [valid |-> TRUE, hasChildrenValid |-> FALSE, childrenValid |-> FALSE]
  IN [valid |-> baseValid,
      child |-> c,
      childrenValid |-> IF c.hasChildrenValid THEN c.childrenValid ELSE c.valid]

Revalidate(baseValid, childResult) ==
  /\ lastCall' = [Call("revalidate") EXCEPT
                    !.validation = revalidate(This, baseValid, childResult)]
  /\ UNCHANGED <<target, overrides, child, cachedValue, heap, nodeValue, created, lastSet>>

\* a revalidate result, as the parent link reads it: childrenValid is its own
\* property
asChildResult(v) ==
  [valid |-> v.valid, hasChildrenValid |-> TRUE, childrenValid |-> v.childrenValid]

\* a nested lazy link that has its child
ActiveLink(s) == [s EXCEPT !.child = [ref |-> "clone", id |-> 1]]

RECURSIVE chainRevalidate(_, _, _)
\* this.child.revalidate() when the child is the first of a chain of Active
\* lazy links whose own valid flags are valids, ending in a plain field that
\* reports {valid: leafValid}
chainRevalidate(s, valids, leafValid) ==
  IF valids = <<>>
    THEN [valid |-> leafValid, hasChildrenValid |-> FALSE, childrenValid |-> FALSE]
    ELSE asChildResult(revalidate(ActiveLink(s), Head(valids),
                                  chainRevalidate(s, Tail(valids), leafValid)))

\* the valid flags a chain of nested links can have
ChainValids == UNION {[1..n -> BOOLEAN] : n \in 0..MaxChain}

\* revalidate on an Active link whose child heads such a chain
RevalidateChain(baseValid, valids, leafValid) ==
  /\ child # NoChild
  /\ lastCall' = [Call("revalidate") EXCEPT
                    !.validation = revalidate(This, baseValid,
                                              chainRevalidate(This, valids, leafValid)),
                    !.chain = valids \o <<leafValid>>]
  /\ UNCHANGED <<target, overrides, child, cachedValue, heap, nodeValue, created, lastSet>>

\* the child asked before the base resolution
resolvePath_childFirst(s, path, baseResult, childResult) ==
  IF s.child # NoChild /\ Len(path) > 0 /\ path[1] = ":child" THEN childResult
  ELSE IF baseResult # Nothing THEN baseResult
  ELSE Nothing

\* resolvePath, given what super.resolvePath and the child's resolvePath return
resolvePath(s, path, baseResult, childResult) ==
  IF baseResult # Nothing THEN baseResult
  ELSE IF s.child # NoChild /\ Len(path) > 0 /\ path[1] = ":child" THEN childResult
  ELSE Nothing

ResolvePath(path, baseResult, childResult) ==
  /\ lastCall' = [Call("resolvePath") EXCEPT
                    !.path = path, !.base = baseResult, !.childAnswer = childResult,
                    !.result = resolvePath(This, path, baseResult, childResult)]
  /\ UNCHANGED <<target, overrides, child, cachedValue, heap, nodeValue, created, lastSet>>

----------------------------------------------------------------------------
(* Configurations: the overrides mapping a schema can give the field *)

OverrideEntries ==
  { Key(<<"a", Slash, "b", Slash, "c">>, "2"),     \* "a/b/c": 2
    Key(<<"a", Slash, "b", Slash, "c">>, Null),    \* "a/b/c": null
    Key(<<"b">>, "5"),                             \* "b": 5
    Key(<<"#", Slash, "a", Slash, "b">>, "5"),     \* "#/a/b": 5
    Key(<<"sub", Semi, "a", Slash, "b">>, "5"),    \* "sub;a/b": 5
    Key(<<"#", Semi, "a", Slash, "b">>, "2"),      \* "#;a/b": 2
    Key(<<"#", Semi, "a", Slash, "b", Slash, "c">>, Null),   \* "#;a/b/c": null
    Key(<<"c", Slash, "b">>, "2"),                 \* "c/b": the clone has no c
    Key(<<"gone", Semi, "a">>, "2") }              \* "gone;a": no such element

\* a mapping holds each key once; Object.entries yields them in insertion order
OverrideConfigs ==
  {c \in UNION {[1..n -> OverrideEntries] : n \in 0..MaxOverrides} :
     \A i, j \in 1..Len(c) : i # j => c[i].field # c[j].field}

\* the configurations the state machine is explored under
MainConfigs ==
  { <<>>,
    <<Key(<<"a", Slash, "b", Slash, "c">>, "2")>>,
    <<Key(<<"b">>, "2"), Key(<<"c", Slash, "b">>, "2")>> }

InitField ==
  /\ target \in BOOLEAN
  /\ child = NoChild
  /\ cachedValue = Undefined
  /\ heap = InitHeap
  /\ \E t \in TemplateValues :
       nodeValue = [n \in NodeIds |-> IF n = "tmpl" THEN t ELSE Undefined]
  /\ created = 0
  /\ lastSet = NeverSet
  /\ lastCall = Call("init")

Init == InitField /\ overrides \in MainConfigs

Next ==
  \/ \E display \in BOOLEAN, parent \in Parents : ShouldDisplay(display, parent)
  \/ \E value \in Values : SetValue(value)
  \/ GetValue
  \/ \E childEmpty \in BOOLEAN : IsEmpty(childEmpty)
  \/ \E baseValid \in BOOLEAN, childResult \in ChildResults :
       Revalidate(baseValid, childResult)
  \/ \E baseValid \in BOOLEAN, valids \in ChainValids, leafValid \in BOOLEAN :
       RevalidateChain(baseValid, valids, leafValid)
  \/ \E path \in PathInputs, baseResult \in {Nothing, "base"}, childResult \in {Nothing, "X"} :
       ResolvePath(path, baseResult, childResult)

Spec == Init /\ [][Next]_vars

\* the override claims: every configuration, driven by visibility polls alone
InitOverrides ==
  /\ InitField
  /\ target
  /\ nodeValue["tmpl"] = "t"
  /\ overrides \in OverrideConfigs

NextOverrides ==
  \E display \in BOOLEAN, parent \in Parents : ShouldDisplay(display, parent)

SpecOverrides == InitOverrides /\ [][NextOverrides]_vars

\* the path resolver on its own: every bounded path walked from the fields the
\* polls have made, and from undefined
Segments == {"#", "a", "b"}

RECURSIVE PathsUpTo(_)
PathsUpTo(n) ==
  IF n = 0 THEN {<<>>}
  ELSE PathsUpTo(n - 1) \cup {Append(p, k) : p \in PathsUpTo(n - 1), k \in Segments}

RawPathInputs == PathsUpTo(MaxPathLen)

Roots == {RefTo(n, <<>>) : n \in {"tmpl", "clone"}} \cup {UndefRef}

ResolveRawPath(object, path) ==
  /\ lastCall' = [Call("resolveRawPath") EXCEPT
                    !.root = object,
                    !.path = path,
                    !.found = resolveRawPath(heap, object, path),
                    !.pathLeft = IF Len(path) = 0 THEN path ELSE splice(path, 1).left]
  /\ UNCHANGED <<target, overrides, child, cachedValue, heap, nodeValue, created, lastSet>>

InitPaths ==
  /\ InitField
  /\ target
  /\ nodeValue["tmpl"] = "t"
  /\ overrides \in MainConfigs

NextPaths ==
  \/ \E display \in BOOLEAN : ShouldDisplay(display, NoParent)
  \/ \E object \in Roots, path \in RawPathInputs : ResolveRawPath(object, path)

SpecPaths == InitPaths /\ [][NextPaths]_vars

----------------------------------------------------------------------------
(* Properties: value round trips and the Absent/Active state machine *)

\* what getValue() would return now
GetValueNow == getValue(This)

\* the target resolves and every override applies to a clone of the template
WellConfigured ==
  /\ target
  /\ ~applyOverrides([InitHeap EXCEPT !["clone"] = TemplateTree,
                                      !["cloneSub"] = TemplateSubTree],
                     [ref |-> "clone", id |-> 1], overrides).threw

\* the step is a shouldDisplay() poll that performs Absent -> Active and returns
Creates ==
  /\ lastCall'.op = "shouldDisplay"
  /\ child = NoChild
  /\ child' # NoChild
  /\ ~lastCall'.threw

\* C1: setValue(v) on an Absent field followed by a poll that creates the child:
\* getValue() then returns v and cachedValue is undefined, for every v, the
\* falsy ones included.
C1_RoundTripPreCreation ==
  [][(lastCall.op = "setValue" /\ Creates)
       => (GetValueNow' = lastCall.value /\ cachedValue' = Undefined)]_vars

\* C2: between calls, whenever a child is present cachedValue is undefined
\* (stated for fields whose target resolves and whose overrides all apply).
C2_ChildExcludesCache ==
  (WellConfigured /\ child # NoChild) => cachedValue = Undefined

\* C3: after setValue(v), whatever polls follow, getValue() returns v
\* (stated for fields whose target resolves and whose overrides all apply).
C3_SetValueSurvivesCycles ==
  (WellConfigured /\ lastSet # NeverSet) => GetValueNow = lastSet

\* C4: a poll with base display false on an Active field makes it Absent and
\* keeps what getValue() returns; while the field stays Absent, every call but
\* setValue keeps it too, and getValue() returns it.
C4_RoundTripPostDestruction ==
  [][/\ (lastCall'.op = "shouldDisplay" /\ ~lastCall'.display /\ child # NoChild)
          => (child' = NoChild /\ GetValueNow' = GetValueNow)
     /\ (child = NoChild /\ child' = NoChild /\ lastCall'.op # "setValue")
          => GetValueNow' = GetValueNow
     /\ (lastCall'.op = "getValue") => lastCall'.result = GetValueNow]_vars

\* a falsy child value has just been captured by a hiding poll
C4_Witness ==
  /\ lastCall.op = "shouldDisplay"
  /\ ~lastCall.display
  /\ lastCall.hadChild
  /\ child = NoChild
  /\ cachedValue = "0"

\* C5: a poll repeated with the same base display result and the same parent
\* leaves the child (the same instance) and cachedValue as the first left them.
C5_IdempotentDisplay ==
  [][(lastCall'.op = "shouldDisplay" /\ lastCall'.repeated)
       => (child' = child /\ cachedValue' = cachedValue /\ created' = created)]_vars

\* a creating poll was repeated and the first clone is still the child
C5_Witness ==
  /\ lastCall.op = "shouldDisplay"
  /\ lastCall.repeated
  /\ lastCall.display
  /\ child # NoChild
  /\ child.id = created

\* C6: after a poll that returns: Active if the base display result is true and
\* the parent is not a collapsed collapsible; Absent, with the child's value in
\* cachedValue, if the base display result is false.
C6_OnePollSuffices ==
  [][(lastCall'.op = "shouldDisplay" /\ ~lastCall'.threw)
       => /\ (/\ lastCall'.display
              /\ ~(/\ lastCall'.parent.exists
                   /\ lastCall'.parent.isCollapsible
                   /\ lastCall'.parent.collapsed))
               => child' # NoChild
          /\ ~lastCall'.display
               => /\ child' = NoChild
                  /\ child # NoChild => cachedValue' = nodeValue[child.ref]]_vars

\* one poll created the child under a parent that is collapsed but not collapsible
C6_Witness ==
  /\ lastCall.op = "shouldDisplay"
  /\ lastCall.display
  /\ lastCall.parent.exists /\ lastCall.parent.collapsed /\ ~lastCall.parent.isCollapsible
  /\ ~lastCall.hadChild
  /\ child # NoChild

\* C7: setValue, getValue, isEmpty, revalidate and resolvePath never change
\* whether (or which) child exists; setValue(v) on an Absent field stores v in
\* cachedValue.
C7_OnlyDisplayDrives ==
  [][(lastCall'.op \in {"setValue", "getValue", "isEmpty", "revalidate", "resolvePath"})
       => /\ child' = child
          /\ created' = created
          /\ (lastCall'.op = "setValue" /\ child = NoChild)
               => cachedValue' = lastCall'.value]_vars

\* setValue was called on an Absent field and the field is still Absent
C7_Witness ==
  /\ lastCall.op = "setValue"
  /\ ~lastCall.hadChild
  /\ child = NoChild
  /\ cachedValue = lastCall.value
  /\ cachedValue = "v"

----------------------------------------------------------------------------
(* Properties: override application *)

\* the last call was a poll that created the child and returned
JustCreated ==
  /\ lastCall.op = "shouldDisplay"
  /\ ~lastCall.hadChild
  /\ ~lastCall.threw
  /\ child # NoChild

IsPlain(field) == ~Includes(field, Semi)

NotSentinel(segment) == segment # "#"

\* the property names a key's path walks: "#" stays in place, except as the
\* terminal property
AddressedPath(field) ==
  LET fp == overridePath(field)
  IN SelectSeq(SubSeq(fp, 1, Len(fp) - 1), NotSentinel) \o <<fp[Len(fp)]>>

\* the node a key's path is walked from: the child, or what the child's
\* resolveRef gives for the element path
AddressedNode(field) ==
  IF IsPlain(field) THEN child.ref
  ELSE resolveRef(child, Split(field, Semi)[1]).node

\* entries i and j write to the same node, one at or below the other's property
Overlap(i, j) ==
  /\ AddressedNode(overrides[i].field) = AddressedNode(overrides[j].field)
  /\ \/ IsPrefix(AddressedPath(overrides[i].field), AddressedPath(overrides[j].field))
     \/ IsPrefix(AddressedPath(overrides[j].field), AddressedPath(overrides[i].field))

\* no entry after i writes where entry i wrote
Final(i) == \A j \in (i + 1)..Len(overrides) : ~Overlap(i, j)

\* entry i has left its mark on node n: the value set, or the key deleted
Applied(i, n) ==
  LET cell == Lookup(heap[n], AddressedPath(overrides[i].field))
  IN IF overrides[i].value = Null THEN cell = Absent
     ELSE cell = overrides[i].value

\* C8: after createChild, for every plain key p1/.../pn with value x (and no
\* later entry writing over it): the clone's property at p1...pn is x when x is
\* not null, and the container at p1...p(n-1) has no key pn when x is null.
C8_OverrideApplication ==
  JustCreated =>
    \A i \in 1..Len(overrides) :
      (IsPlain(overrides[i].field) /\ Final(i)) => Applied(i, child.ref)

\* {"a/b/c": 2} gave a clone with a.b.c = 2 while the template keeps a.b.c = 1
C8_Witness ==
  /\ JustCreated
  /\ Len(overrides) >= 1
  /\ overrides[1] = Key(<<"a", Slash, "b", Slash, "c">>, "2")
  /\ Lookup(heap[child.ref], <<"a", "b", "c">>) = "2"
  /\ Lookup(TemplateTree, <<"a", "b", "c">>) = "1"

\* an entry of the mapping roots its path at the child and writes at, above or
\* below the property path q
ChildWrittenAt(q) ==
  \E i \in 1..Len(overrides) :
    /\ AddressedNode(overrides[i].field) = child.ref
    /\ \/ IsPrefix(AddressedPath(overrides[i].field), q)
       \/ IsPrefix(q, AddressedPath(overrides[i].field))

\* C9: a key "elementPath;a/b" whose element path the child resolves to a node
\* N other than the child sets N.a.b to its value (no later entry writing over
\* it), and no property of the child itself changes except where a key rooted
\* at the child writes.
C9_ScopedOverride ==
  JustCreated =>
    /\ \A i \in 1..Len(overrides) :
         LET n == AddressedNode(overrides[i].field)
         IN (~IsPlain(overrides[i].field) /\ n \in NodeIds /\ n # child.ref /\ Final(i))
              => Applied(i, n)
    /\ \A q \in (DOMAIN heap[child.ref]) \cup (DOMAIN TemplateTree) :
         ~ChildWrittenAt(q) => Lookup(heap[child.ref], q) = Lookup(TemplateTree, q)

\* {"sub;a/b": 5} set a.b of the field below the clone and left the clone's a.b
C9_Witness ==
  /\ JustCreated
  /\ \E i \in 1..Len(overrides) :
       overrides[i] = Key(<<"sub", Semi, "a", Slash, "b">>, "5")
  /\ Lookup(heap[SubOf(child.ref)], <<"a", "b">>) = "5"
  /\ Lookup(heap[child.ref], <<"a", "b">>) = Obj
  /\ Lookup(heap[child.ref], <<"a", "b", "c">>) = "1"

\* C10: the template the target resolves to, and the field below it, keep
\* their properties and nested values through every createChild.
C10_TemplateUntouched ==
  /\ heap["tmpl"] = TemplateTree
  /\ heap["tmplSub"] = TemplateSubTree

\* a second clone carries a plain and a scoped override
C10_Witness ==
  /\ JustCreated
  /\ created >= 2
  /\ heap[child.ref] # TemplateTree
  /\ heap[SubOf(child.ref)] # TemplateSubTree

----------------------------------------------------------------------------
(* Properties: validation and path resolution *)

\* C11: revalidate on a field with no child gives child = {valid: true} and
\* childrenValid true; a child result reporting childrenValid = false gives
\* childrenValid false; a child result without a childrenValid property gives
\* childrenValid equal to its valid flag.
C11_ValidityPropagation ==
  (lastCall.op = "revalidate") =>
    LET v == lastCall.validation
    IN /\ ~lastCall.hadChild
            => /\ v.child.valid
               /\ ~v.child.hasChildrenValid
               /\ v.childrenValid
       /\ (v.child.hasChildrenValid /\ ~v.child.childrenValid) => ~v.childrenValid
       /\ ~v.child.hasChildrenValid => (v.childrenValid = v.child.valid)

\* a valid child reporting childrenValid = false made the link's childrenValid false
C11_Witness ==
  /\ lastCall.op = "revalidate"
  /\ lastCall.hadChild
  /\ lastCall.validation.child.valid
  /\ lastCall.validation.child.hasChildrenValid
  /\ ~lastCall.validation.child.childrenValid
  /\ ~lastCall.validation.childrenValid

\* C12: resolvePath([':child', 'foo']) returns what the child resolves ['foo']
\* to when the field is Active and the base resolution yields nothing; it
\* returns nothing when the field is Absent; a non-empty base result is
\* returned whatever the child would answer.
C12_PathDelegation ==
  (lastCall.op = "resolvePath") =>
    /\ lastCall.base # Nothing => lastCall.result = lastCall.base
    /\ (lastCall.base = Nothing /\ lastCall.hadChild /\ lastCall.path = <<":child", "foo">>)
         => lastCall.result = lastCall.childAnswer
    /\ (lastCall.base = Nothing /\ ~lastCall.hadChild) => lastCall.result = Nothing

\* the Active link handed [':child', 'foo'] on to its child and returned X
C12_Witness ==
  /\ lastCall.op = "resolvePath"
  /\ lastCall.hadChild
  /\ lastCall.base = Nothing
  /\ lastCall.path = <<":child", "foo">>
  /\ lastCall.childAnswer = "X"
  /\ lastCall.result = "X"

----------------------------------------------------------------------------
(* Properties: one child at a time *)

\* C13: createChild is reached only when child is undefined (a clone is made,
\* or creation throws, only from the Absent state), and child changes only by
\* a creation from Absent or by a deletion of the live child: creations and
\* deletions alternate and a live child is never overwritten.
C13_OneChildAtATime ==
  [][/\ (created' # created)
          => (child = NoChild /\ created' = created + 1
                /\ child' # NoChild /\ child'.id = created')
     /\ lastCall'.threw => child = NoChild
     /\ (child' # child)
          => \/ (child = NoChild /\ child' # NoChild /\ created' = created + 1)
             \/ (child # NoChild /\ child' = NoChild /\ created' = created)]_vars

\* the second clone is alive: the first was deleted before it was made
C13_Witness ==
  /\ child # NoChild
  /\ child.id = 2
  /\ created = 2
  /\ lastCall.op = "shouldDisplay"
  /\ ~lastCall.hadChild

----------------------------------------------------------------------------
(* Properties: nested validity *)

\* C14: for a chain of nested Active lazy links below the field, the field's
\* revalidate().childrenValid is true if and only if every field below it in
\* the chain is valid.
C14_NestedValidity ==
  (lastCall.op = "revalidate" /\ lastCall.chain # <<>>) =>
    (lastCall.validation.childrenValid
       <=> \A i \in 1..Len(lastCall.chain) : lastCall.chain[i])

----------------------------------------------------------------------------
(* Properties: order of the overrides and failing overrides *)

\* C15: overrides are applied in the mapping's order and later entries win:
\* when two entries write the same property, or one writes at or below the
\* other's, the clone shows what the later entry wrote (unless a still later
\* entry wrote over that).
C15_LaterEntryWins ==
  JustCreated =>
    \A i, j \in 1..Len(overrides) :
      (i < j /\ Overlap(i, j) /\ Final(j))
        => Applied(j, AddressedNode(overrides[j].field))

\* {"a/b/c": 2, "#;a/b/c": null}: the later delete won over the earlier set
C15_Witness ==
  /\ JustCreated
  /\ overrides = <<Key(<<"a", Slash, "b", Slash, "c">>, "2"),
                   Key(<<"#", Semi, "a", Slash, "b", Slash, "c">>, Null)>>
  /\ Lookup(heap[child.ref], <<"a", "b", "c">>) = Absent
  /\ Lookup(heap[child.ref], <<"a", "b">>) = Obj

\* the tree a node of the clone starts from
PristineTree(n) == IF n = child.ref THEN TemplateTree ELSE TemplateSubTree

\* entry k's path walks through a container the fresh clone does not have
StepsIntoAbsent(k) ==
  LET n == AddressedNode(overrides[k].field)
      p == AddressedPath(overrides[k].field)
  IN /\ n \in NodeIds
     /\ \E m \in 1..(Len(p) - 1) : Lookup(PristineTree(n), SubSeq(p, 1, m)) = Absent

\* the last call was a poll that went into createChild from the Absent state
\* with a resolvable target
EnteredCreate ==
  /\ lastCall.op = "shouldDisplay"
  /\ ~lastCall.hadChild
  /\ child # NoChild

\* C16: when the k-th entry's path steps into an absent container (and no
\* earlier entry wrote on that path), createChild fails at that entry or
\* before; and when it fails at entry k, every entry before k is applied to
\* the clone and no entry after k is.
C16_FailFastNoRollback ==
  EnteredCreate =>
    /\ \A k \in 1..Len(overrides) :
         (StepsIntoAbsent(k) /\ \A i \in 1..(k - 1) : ~Overlap(i, k))
           => (lastCall.threw /\ lastCall.failedAt \in 1..k)
    /\ lastCall.threw <=> lastCall.failedAt # 0
    /\ LET k == lastCall.failedAt
       IN k # 0 =>
            /\ \A i \in 1..(k - 1) :
                 (\A j \in (i + 1)..(k - 1) : ~Overlap(i, j))
                   => Applied(i, AddressedNode(overrides[i].field))
            /\ \A j \in (k + 1)..Len(overrides) :
                 LET n == AddressedNode(overrides[j].field)
                     p == AddressedPath(overrides[j].field)
                 IN (n \in NodeIds /\ \A i \in 1..(k - 1) : ~Overlap(i, j))
                      => Lookup(heap[n], p) = Lookup(PristineTree(n), p)

\* {"b": 5, "c/b": 2}: creation failed at the second entry with b already 5
C16_Witness ==
  /\ EnteredCreate
  /\ lastCall.threw
  /\ lastCall.failedAt = 2
  /\ overrides = <<Key(<<"b">>, "5"), Key(<<"c", Slash, "b">>, "2")>>
  /\ Lookup(heap[child.ref], <<"b">>) = "5"
  /\ Lookup(heap[child.ref], <<"c">>) = Absent

----------------------------------------------------------------------------
(* Properties: failing creations and the collapsed parent *)

\* the step is a poll that has to create the child: base display true, parent
\* not a collapsed collapsible, no child
CreatingPoll ==
  /\ lastCall'.op = "shouldDisplay"
  /\ lastCall'.display
  /\ ~isParentCollapsed(lastCall'.parent)
  /\ child = NoChild

\* C17: with a target that resolveRef cannot find, a poll that would create
\* the child fails instead of returning and leaves the field Absent with
\* cachedValue unchanged; so does every later such poll.
C17_UnresolvableTarget ==
  [][(~target /\ CreatingPoll)
       => /\ lastCall'.threw
          /\ child' = NoChild
          /\ cachedValue' = cachedValue
          /\ created' = created]_vars

\* a creating poll was repeated on an unresolvable target and failed again,
\* the cached value still in place
C17_Witness ==
  /\ ~target
  /\ lastCall.op = "shouldDisplay"
  /\ lastCall.repeated
  /\ lastCall.threw
  /\ child = NoChild
  /\ cachedValue = "v"

\* entry i has left its mark on the child
AppliedToChild(i) == Applied(i, child.ref)

\* C18: a createChild that fails in the overrides leaves the clone in child,
\* partially overridden, and cachedValue not transferred, so getValue()
\* returns the clone's own value; later polls with base display true find a
\* child and leave it and its properties alone.
C18_FailedOverrideState ==
  [][/\ (target /\ lastCall'.op = "shouldDisplay" /\ lastCall'.threw)
          => /\ child = NoChild
             /\ child' # NoChild
             /\ cachedValue' = cachedValue
             /\ GetValueNow' = nodeValue'[child'.ref]
             /\ GetValueNow' = nodeValue["tmpl"]
             /\ \A i \in 1..(lastCall'.failedAt - 1) :
                  (\A j \in (i + 1)..(lastCall'.failedAt - 1) : ~Overlap(i, j)')
                    => AppliedToChild(i)'
     /\ (lastCall'.op = "shouldDisplay" /\ lastCall'.display /\ child # NoChild)
          => /\ child' = child
             /\ heap' = heap
             /\ cachedValue' = cachedValue
             /\ ~lastCall'.threw]_vars

\* after a failed creation a visible poll was repeated: the half-overridden
\* clone is still the child, the cached value still beside it
C18_Witness ==
  /\ target
  /\ ~WellConfigured
  /\ lastCall.op = "shouldDisplay"
  /\ lastCall.display
  /\ lastCall.hadChild
  /\ child # NoChild
  /\ created = 1
  /\ cachedValue = "v"
  /\ GetValueNow = "t"
  /\ Lookup(heap[child.ref], <<"b">>) = "2"

\* C19: a poll with base display true under a collapsed collapsible parent
\* returns true and leaves child (the same instance, with its value and
\* properties) and cachedValue as they were.
C19_CollapseGatesCreationOnly ==
  [][(lastCall'.op = "shouldDisplay" /\ lastCall'.display
        /\ isParentCollapsed(lastCall'.parent))
       => /\ child' = child
          /\ cachedValue' = cachedValue
          /\ created' = created
          /\ nodeValue' = nodeValue
          /\ heap' = heap
          /\ lastCall'.result = "true"]_vars

\* a visible poll under a collapsed parent found the field Active and left it so
C19_Witness ==
  /\ lastCall.op = "shouldDisplay"
  /\ lastCall.display
  /\ lastCall.parent.exists /\ lastCall.parent.isCollapsible /\ lastCall.parent.collapsed
  /\ lastCall.hadChild
  /\ child # NoChild
  /\ lastCall.result = "true"

----------------------------------------------------------------------------
(* Properties: the path resolver *)

\* the traversal with an index cursor i over the path, which is left as it is
RECURSIVE cursorResolve(_, _, _, _)
cursorResolve(h, object, path, i) ==
  IF i > Len(path) THEN object
  ELSE IF path[i] = "#" THEN cursorResolve(h, object, path, i + 1)
  ELSE cursorResolve(h, Step(h, object, path[i]), path, i + 1)

\* C20: resolveRawPath(object, path) gives what an index-cursor traversal
\* gives: object for the empty path, the result for the remaining segments on
\* the same object after a "#", the result on object[segment] otherwise; and
\* the call leaves every property of every field as it was.
C20_CursorEquivalence ==
  [][lastCall'.op = "resolveRawPath"
       => /\ lastCall'.found = cursorResolve(heap, lastCall'.root, lastCall'.path, 1)
          /\ lastCall'.path = <<>> => lastCall'.found = lastCall'.root
          /\ (lastCall'.path # <<>> /\ lastCall'.path[1] = "#")
               => lastCall'.found
                    = cursorResolve(heap, lastCall'.root, Tail(lastCall'.path), 1)
          /\ heap' = heap
          /\ nodeValue' = nodeValue]_vars

\* a path with the sentinel in the middle was walked from the overridden clone
\* down to a nested object
C20_Witness ==
  /\ lastCall.op = "resolveRawPath"
  /\ lastCall.root = RefTo("clone", <<>>)
  /\ child # NoChild
  /\ overrides # <<>>
  /\ lastCall.path = <<"a", "#", "b">>
  /\ lastCall.found = RefTo("clone", <<"a", "b">>)
  /\ lastCall.pathLeft = <<"a">>

====
